---- MODULE Spec2Model ----
(***************************************************************************)
(* slack-release-monitor: the extraction pipeline (ReleaseExtractor), the  *)
(* processed-id tracker (StateManager) and the run that combines them.     *)
(*                                                                         *)
(* Texts are sequences of tokens: a response text is a sequence of string  *)
(* tokens ("[", "r1", ",", "\n", "FENCE", "#", ...), a formatted message is  *)
(* a sequence of lines, a line a sequence of tokens.  "r1", "r2" stand for *)
(* complete JSON release objects, "w" for a bare word, "s" for a JSON      *)
(* string literal, "FENCE" for the three-backquote fence marker.           *)
(*                                                                         *)
(* Spec is the program driven by a caller of the extractor, of the tracker *)
(* or by run; ParserSpec is parseReleasesFromResponse applied to one text. *)
(***************************************************************************)
EXTENDS Integers, Sequences, FiniteSets, TLC

(* ------------------------------ bounds --------------------------------- *)

\* longest message list handed to extractReleases or getUnprocessedMessages
\* or returned by fetchMessages
MaxBatch == 3

\* longest id list handed to markProcessed by a direct caller
MaxIds == 2

\* runs a process of the run driver performs one after the other
MaxRuns == 2

\* most releases in one response text handed to the parser on its own
MaxReleases == 2

(* --------------------------- small helpers ----------------------------- *)

Range(s) == {s[i] : i \in 1..Len(s)}

NoDup(s) == \A i, j \in 1..Len(s) : i # j => s[i] # s[j]

SeqsUpTo(S, n) == UNION {[1..k -> S] : k \in 0..n}

RECURSIVE Flatten(_)
Flatten(ss) == IF ss = <<>> THEN <<>> ELSE Head(ss) \o Flatten(Tail(ss))

\* s is t with some elements left out, order kept
RECURSIVE IsSubsequence(_, _)
IsSubsequence(s, t) ==
  IF s = <<>> THEN TRUE
  ELSE IF t = <<>> THEN FALSE
  ELSE IF Head(s) = Head(t) THEN IsSubsequence(Tail(s), Tail(t))
  ELSE IsSubsequence(s, Tail(t))

(* ------------------------------ messages ------------------------------- *)

MsgIds == {"m1", "m2", "m3"}

SecondsPerDay == 86400

Reply(id, ts, userId, username, text) ==
  [id |-> id, timestamp |-> ts, userId |-> userId, username |-> username, text |-> text]

\* SlackMessage: the messages the message source can supply, by id.
\* username "" stands for an absent username.
SlackMessage(id) ==
  CASE id = "m1" -> [id |-> "m1", text |-> "shipped v1", timestamp |-> 86400,
                     userId |-> "U0000001AAAA", username |-> "ann",
                     threadReplies |-> <<>>]
    [] id = "m2" -> [id |-> "m2", text |-> "deployed api", timestamp |-> 172800,
                     userId |-> "U0000002BBBB", username |-> "",
                     threadReplies |->
                       << Reply("m2.1", 172900, "U0000003CCCC", "bob", "lgtm"),
                          Reply("m2.2", 259300, "U0000004DDDD", "", "rolled back") >>]
    [] OTHER     -> [id |-> "m3", text |-> "lunch?", timestamp |-> 259200,
                     userId |-> "U0000001AAAA", username |-> "ann",
                     threadReplies |->
                       << Reply("m3.1", 259201, "U0000002BBBB", "cat", "yes") >> ]

\* message lists: ids are unique within a list (spec 6, message source)
Batches == {b \in SeqsUpTo(MsgIds, MaxBatch) : NoDup(b)}

\* id lists handed to markProcessed: an id may be listed twice
IdLists == SeqsUpTo(MsgIds, MaxIds)

\* new Date(parseFloat(ts) * 1000).toISOString().split('T')[0]: the UTC day
IsoDate(ts) == ToString(ts \div SecondsPerDay)

\* userId.substring(0, 8)
Substring8(userId) ==
  CASE userId = "U0000001AAAA" -> "U0000001"
    [] userId = "U0000002BBBB" -> "U0000002"
    [] userId = "U0000003CCCC" -> "U0000003"
    [] OTHER                   -> "U0000004"

replyAuthor(reply) ==
  IF reply.username # "" THEN <<reply.username>>
  ELSE <<"user-", Substring8(reply.userId)>>

replyLine(reply) ==
  <<"  |- [", reply.id, "] [", IsoDate(reply.timestamp), "] @">>
    \o replyAuthor(reply) \o <<": ", reply.text>>

\* mutant: the thread header line is left out
formatMessageNoHeader(message) ==
  <<  <<"[", message.id, "] [", IsoDate(message.timestamp), "] ", message.text>>  >>
    \o [i \in 1..Len(message.threadReplies) |-> replyLine(message.threadReplies[i])]

\* formatMessage: the lines of the text block of one message
formatMessage(message) ==
  LET parent  == <<"[", message.id, "] [", IsoDate(message.timestamp), "] ",
                   message.text>>
      replies == message.threadReplies
  IN  IF Len(replies) > 0
      THEN <<parent>>
             \o << <<"  [Thread replies (", ToString(Len(replies)), "):]">> >>
             \o [i \in 1..Len(replies) |-> replyLine(replies[i])]
      ELSE <<parent>>

\* prompt, blank line, "Message to analyze:", blank line, formatted message
userContent(prompt, message) ==
  << <<prompt>>, <<>>, <<"Message to analyze:">>, <<>> >> \o formatMessage(message)

(* --------------------------- response parser --------------------------- *)

Whitespace == {"\n", " "}

ReleaseTokens == {"r1", "r2"}

\* tokens of running text: they begin no JSON value and are no delimiter
WordTokens == {"w", "#", "##", "json"}

\* String.prototype.trim
RECURSIVE TrimLeft(_)
TrimLeft(t) ==
  IF t # <<>> /\ Head(t) \in Whitespace THEN TrimLeft(Tail(t)) ELSE t

RECURSIVE TrimRight(_)
TrimRight(t) ==
  IF t # <<>> /\ t[Len(t)] \in Whitespace
  THEN TrimRight(SubSeq(t, 1, Len(t) - 1)) ELSE t

Trim(t) == TrimRight(TrimLeft(t))

\* String.prototype.split('\n'): the lines of a text, at least one
RECURSIVE SplitLines(_)
SplitLines(t) ==
  IF \A i \in 1..Len(t) : t[i] # "\n" THEN <<t>>
  ELSE LET k == CHOOSE i \in 1..Len(t) :
                  t[i] = "\n" /\ \A j \in 1..(i - 1) : t[j] # "\n"
       IN  <<SubSeq(t, 1, k - 1)>> \o SplitLines(SubSeq(t, k + 1, Len(t)))

\* Array.prototype.join('\n')
RECURSIVE JoinLines(_)
JoinLines(ls) ==
  IF ls = <<>> THEN <<>>
  ELSE IF Len(ls) = 1 THEN ls[1]
  ELSE ls[1] \o <<"\n">> \o JoinLines(Tail(ls))

\* the fence marker, three backquotes
FenceMarker == "FENCE"

\* text.startsWith(fence marker)
StartsWithFence(t) == t # <<>> /\ t[1] = FenceMarker

\* text.startsWith('#')
StartsWithHash(t) == t # <<>> /\ t[1] \in {"#", "##"}

\* text.includes('##') (which text.includes('###') implies)
IncludesHashHash(t) == \E i \in 1..Len(t) : t[i] = "##"

\* mutant: the closing marker line is kept
StripFenceKeepsClosing(textContent) ==
  LET jsonText == Trim(textContent)
  IN  IF StartsWithFence(jsonText)
      THEN Trim(JoinLines(Tail(SplitLines(jsonText))))
      ELSE jsonText

\* the fence stripping of parseReleasesFromResponse: drop the opening marker
\* line and, when the last line is a bare marker, that line
StripFence(textContent) ==
  LET jsonText == Trim(textContent)
  IN  IF StartsWithFence(jsonText)
      THEN LET lines   == Tail(SplitLines(jsonText))
               popped  == IF Len(lines) > 0 /\ Trim(lines[Len(lines)]) = <<FenceMarker>>
                          THEN SubSeq(lines, 1, Len(lines) - 1)
                          ELSE lines
           IN  Trim(JoinLines(popped))
      ELSE jsonText

SelectNonWs(t) == SelectSeq(t, LAMBDA x : x \notin Whitespace)

\* the elements of a comma-separated list of release objects, or the failure
\* marker <<"!">> when the tokens are no such list
RECURSIVE Elements(_)
Elements(t) ==
  IF t = <<>> THEN <<"!">>
  ELSE IF Head(t) \notin ReleaseTokens \cup {"s"} THEN <<"!">>
  ELSE IF Len(t) = 1 THEN <<Head(t)>>
  ELSE IF t[2] # "," THEN <<"!">>
  ELSE LET rest == Elements(SubSeq(t, 3, Len(t)))
       IN  IF rest = <<"!">> THEN <<"!">> ELSE <<Head(t)>> \o rest

\* JSON.parse: [ok |-> parsed, isArray, elements]
JsonParse(input) ==
  LET t    == SelectNonWs(input)
      fail == [ok |-> FALSE, isArray |-> FALSE, elements |-> <<>>]
  IN  IF t = <<>> THEN fail
      ELSE IF t = <<"{", "}">> \/ (Len(t) = 1 /\ t[1] \in ReleaseTokens \cup {"s"})
      THEN [ok |-> TRUE, isArray |-> FALSE, elements |-> <<>>]
      ELSE IF t = <<"[", "]">>
      THEN [ok |-> TRUE, isArray |-> TRUE, elements |-> <<>>]
      ELSE IF Len(t) >= 3 /\ t[1] = "[" /\ t[Len(t)] = "]"
      THEN LET es == Elements(SubSeq(t, 2, Len(t) - 1))
           IN  IF es = <<"!">> THEN fail
               ELSE [ok |-> TRUE, isArray |-> TRUE, elements |-> es]
      ELSE fail

\* mutant: a JSON value that is no array counts as a failed parse
tryParseArrayOnly(input) ==
  LET v == JsonParse(input)
  IN  IF v.ok /\ v.isArray THEN [isNull |-> FALSE, releases |-> v.elements]
      ELSE [isNull |-> TRUE, releases |-> <<>>]

\* tryParse: the array, [] for any other JSON value, null when JSON.parse throws
tryParse(input) ==
  LET v == JsonParse(input)
  IN  IF ~v.ok THEN [isNull |-> TRUE, releases |-> <<>>]
      ELSE IF v.isArray THEN [isNull |-> FALSE, releases |-> v.elements]
      ELSE [isNull |-> FALSE, releases |-> <<>>]

\* position of the first "]" of t, 0 when there is none
FirstClose(t) ==
  IF \E i \in 1..Len(t) : t[i] = "]"
  THEN CHOOSE i \in 1..Len(t) : t[i] = "]" /\ \A j \in 1..(i - 1) : t[j] # "]"
  ELSE 0

\* unquoted words become JSON strings
QuoteWords(t) == [i \in 1..Len(t) |-> IF t[i] \in WordTokens THEN "s" ELSE t[i]]

\* a, b, c with commas between
RECURSIVE CommaList(_)
CommaList(items) ==
  IF Len(items) <= 1 THEN items
  ELSE <<Head(items), ",">> \o CommaList(Tail(items))

\* the lines of a text that hold more than whitespace
WordLines(t) == SelectSeq(SplitLines(Trim(t)), LAMBDA l : SelectNonWs(l) # <<>>)

\* jsonrepair (library): [thrown, text].  It closes a truncated array, strips
\* a trailing comma and quotes unquoted text: one line of words becomes one
\* JSON string, lines of words of which the second begins with a word
\* character become an array of strings (newline-delimited values).  It
\* throws on an empty text, on an object without a key and on a character it
\* cannot place after the root value.
jsonrepair(jsonText) ==
  LET t      == SelectNonWs(jsonText)
      thrown == [thrown |-> TRUE, text |-> <<>>]
  IN  IF t = <<>> THEN thrown
      ELSE IF t[1] = "["
      THEN LET close == FirstClose(t)
               body  == IF close = 0 THEN SubSeq(t, 2, Len(t))
                        ELSE SubSeq(t, 2, close - 1)
               rest  == IF close = 0 THEN <<>> ELSE SubSeq(t, close + 1, Len(t))
               items == IF body # <<>> /\ body[Len(body)] = ","
                        THEN SubSeq(body, 1, Len(body) - 1) ELSE body
               quoted == QuoteWords(items)
           IN  IF rest # <<>> THEN thrown
               ELSE IF quoted = <<>> THEN [thrown |-> FALSE, text |-> <<"[", "]">>]
               ELSE IF Elements(quoted) = <<"!">> THEN thrown
               ELSE [thrown |-> FALSE, text |-> <<"[">> \o quoted \o <<"]">>]
      ELSE IF \A i \in 1..Len(t) : t[i] \in WordTokens
      THEN LET lines == WordLines(jsonText)
           IN  IF Len(lines) = 1 THEN [thrown |-> FALSE, text |-> <<"s">>]
               ELSE IF TrimLeft(lines[2])[1] \in {"w", "json"}
               THEN [thrown |-> FALSE,
                     text |-> <<"[">> \o CommaList([i \in 1..Len(lines) |-> "s"]) \o <<"]">>]
               ELSE thrown
      ELSE thrown

\* the markdown signals looked for in the original text
isMarkdown(textContent) ==
  \/ StartsWithHash(Trim(textContent))
  \/ StartsWithFence(Trim(textContent))
  \/ IncludesHashHash(textContent)

\* mutant: the text is repaired before it is parsed, valid or not
parseRepairsFirst(textContent) ==
  LET jsonText == StripFence(textContent)
      repaired == jsonrepair(jsonText)
      repairedParsed == tryParse(repaired.text)
  IN  IF ~repaired.thrown /\ repaired.text # <<>> /\ ~repairedParsed.isNull
      THEN [result |-> repairedParsed.releases, error |-> "none",
            stage |-> "repair", events |-> <<"trace.update">>]
      ELSE IF isMarkdown(textContent)
      THEN [result |-> <<>>, error |-> "format", stage |-> "classify",
            events |-> <<"generation.end:ERROR">>]
      ELSE [result |-> <<>>, error |-> "parse", stage |-> "classify",
            events |-> <<"generation.end:ERROR">>]

\* parseReleasesFromResponse: [result, error, stage, events]; error is "none",
\* "format" (markdown instead of JSON) or "parse"; stage is the stage that
\* decided; events are the observability calls made when trace and generation
\* are present
parseReleasesFromResponse(textContent) ==
  LET jsonText == StripFence(textContent)
      parsed   == tryParse(jsonText)
      repaired == jsonrepair(jsonText)
      repairedParsed == tryParse(repaired.text)
  IN  IF ~parsed.isNull
      THEN [result |-> parsed.releases, error |-> "none", stage |-> "direct",
            events |-> <<"trace.update">>]
      ELSE IF ~repaired.thrown /\ repaired.text # <<>> /\ ~repairedParsed.isNull
      THEN [result |-> repairedParsed.releases, error |-> "none",
            stage |-> "repair", events |-> <<"trace.update">>]
      ELSE IF isMarkdown(textContent)
      THEN [result |-> <<>>, error |-> "format", stage |-> "classify",
            events |-> <<"generation.end:ERROR">>]
      ELSE [result |-> <<>>, error |-> "parse", stage |-> "classify",
            events |-> <<"generation.end:ERROR">>]

(* ------------------------- completion endpoint ------------------------- *)

\* the texts a completion can carry; <<>> is a missing or empty content
Contents ==
  { <<>>,
    <<"[", "]">>,
    <<"[", "r1", "]">>,
    <<"[", "r1", ",", "r2", "]">>,
    <<"{", "}">>,
    <<"[", "r2">>,
    <<FenceMarker, "json", "\n", "[", "r2", "]", "\n", FenceMarker>>,
    <<"w", "[">>,
    <<"#", "w", "\n", "##", "w", "{", ":">> }

\* the responses of the completion endpoint: a non-2xx status or a success
Responses ==
  {[ok |-> FALSE, content |-> <<>>]} \cup {[ok |-> TRUE, content |-> c] : c \in Contents}

\* the parser's outcome on the texts above
ParserCases ==
  /\ parseReleasesFromResponse(<<"[", "r1", ",", "r2", "]">>).result = <<"r1", "r2">>
  /\ parseReleasesFromResponse(<<"{", "}">>).error = "none"
  /\ parseReleasesFromResponse(<<"[", "r2">>).result = <<"r2">>
  /\ parseReleasesFromResponse(<<"[", "r2">>).stage = "repair"
  /\ parseReleasesFromResponse(
       <<FenceMarker, "json", "\n", "[", "r2", "]", "\n", FenceMarker>>).result = <<"r2">>
  /\ parseReleasesFromResponse(<<"w", "[">>).error = "parse"
  /\ parseReleasesFromResponse(<<"#", "w", "\n", "##", "w", "{", ":">>).error = "format"

(* ------------------------ texts for the parser ------------------------- *)

\* the response 'not json at all'
NotJsonAtAll == <<"w", " ", "w">>

\* the response '# Summary'
HashSummary == <<"#", " ", "w">>

ReleaseLists == SeqsUpTo(ReleaseTokens, MaxReleases)

\* response texts: JSON arrays of releases, complete, truncated and with a
\* trailing comma; JSON values that are no array; prose and markdown
BaseTexts ==
  {<<"[">> \o CommaList(r) \o <<"]">> : r \in ReleaseLists}
    \cup {<<"[">> \o CommaList(r) : r \in ReleaseLists \ {<<>>}}
    \cup {<<"[">> \o CommaList(r) \o <<",", "]">> : r \in ReleaseLists \ {<<>>}}
    \cup {<<"{", "}">>, <<"r1">>, <<"s">>}
    \cup {NotJsonAtAll, HashSummary, <<"w", "[">>,
          HashSummary \o <<"\n", "##", " ", "w", "{", ":">>,
          <<"w", "\n", "##", " ", "w", "{", ":">>,
          <<" ">>}

\* a text as it is, padded with whitespace, and inside a fenced block with
\* and without a language tag and without the closing fence
Wrappings(t) ==
  { t,
    <<"\n", " ">> \o t \o <<" ", "\n">>,
    <<FenceMarker, "json", "\n">> \o t \o <<"\n", FenceMarker>>,
    <<FenceMarker, "\n">> \o t \o <<"\n", FenceMarker, "\n">>,
    <<FenceMarker, "json", "\n">> \o t }

\* the texts handed to parseReleasesFromResponse on its own
ParserTexts == UNION {Wrappings(t) : t \in BaseTexts}

(* --------------------------- prompt registry --------------------------- *)

\* an absent value (undefined); values are written as JavaScript writes them
Undefined == "undefined"

\* JavaScript truthiness of a config value: undefined, '' and 0 are falsy
Truthy(v) == v \notin {Undefined, "", "0"}

\* the prompt text the registry holds for 'release-extraction'
RegistryPrompt == "release-extraction prompt"

\* let config: OpenRouterConfig = {}
EmptyConfig ==
  [model |-> Undefined, max_tokens |-> Undefined, temperature |-> Undefined,
   top_p |-> Undefined, httpReferer |-> Undefined, xTitle |-> Undefined]

\* the config objects the registry can hold next to the prompt
RegistryConfigs ==
  { [model |-> "openai/gpt-4o", max_tokens |-> "0", temperature |-> "0",
     top_p |-> Undefined, httpReferer |-> "https://example.org", xTitle |-> ""],
    [model |-> Undefined, max_tokens |-> "1024", temperature |-> Undefined,
     top_p |-> "0.9", httpReferer |-> Undefined, xTitle |-> "Monitor"] }

\* the config values taken over from the registry's config object
OpenRouterConfig(raw) ==
  [model       |-> IF Truthy(raw.model) THEN raw.model ELSE Undefined,
   max_tokens  |-> IF Truthy(raw.max_tokens) THEN raw.max_tokens ELSE Undefined,
   temperature |-> raw.temperature,
   top_p       |-> raw.top_p,
   httpReferer |-> IF Truthy(raw.httpReferer) THEN raw.httpReferer ELSE Undefined,
   xTitle      |-> IF Truthy(raw.xTitle) THEN raw.xTitle ELSE Undefined]

defaultModel == "anthropic/claude-sonnet-4"

defaultMaxTokens == "4096"

\* const model = config.model || this.defaultModel
Model(cfg) == IF Truthy(cfg.model) THEN cfg.model ELSE defaultModel

\* const maxTokens = config.max_tokens || this.defaultMaxTokens
MaxTokens(cfg) == IF Truthy(cfg.max_tokens) THEN cfg.max_tokens ELSE defaultMaxTokens

\* the request headers, built once per call
Headers(cfg) ==
  [Authorization |-> "Bearer apiKey",
   ContentType   |-> "application/json",
   HTTPReferer   |-> IF Truthy(cfg.httpReferer) THEN cfg.httpReferer
                     ELSE "https://github.com/thormodsen/changelog-creator",
   XTitle        |-> IF Truthy(cfg.xTitle) THEN cfg.xTitle
                     ELSE "Slack Release Monitor"]

(* ------------------------------- state --------------------------------- *)

VARIABLES
  driver,          \* what drives the process: "extract", "tracker", "run",
                   \* "parser" for the parser on its own, or "race" for two
                   \* processes that share the state file
  parserInput,     \* the text handed to parseReleasesFromResponse
  parserOutput,    \* what it returned, NotParsed before
  \* ReleaseExtractor and one extractReleases call
  langfuse,        \* the collaborator: "absent", "disabled" or "enabled"
  ex_pc,           \* "idle", "resolve", "fetch", "progress", "returned", "threw"
  messages,        \* the batch (message ids, in order)
  onProgress,      \* whether a progress callback was supplied
  prompt,          \* the prompt resolved for the batch, "" before
  config,          \* the OpenRouterConfig of the call
  langfuseResult,  \* log: what the registry lookup gave: "none" (not asked or
                   \* pending), "null" or "found"
  index,           \* 1-based position in the batch of the message in work
  allReleases,     \* the releases accumulated so far
  returned,        \* the value extractReleases returned
  error,           \* the error extractReleases raised, "none" otherwise:
                   \* "langfuse_required", "prompt_not_found", "transport",
                   \* "format", "parse" or "callback"
  inFlight,        \* completion requests issued and not yet answered
  requests,        \* log: the completion requests issued, in order
  responses,       \* log: the responses received, in order
  progressCalls,   \* log: the progress callback invocations, in order
  progressSettled, \* log: number of progress callback invocations that settled
  progressFailed,  \* log: position of the message whose progress callback
                   \* failed, 0 when none did
  events,          \* log: the observability events, in order
  lookups,         \* log: number of prompt-registry lookups of the call
  \* StateManager and its file
  sm_pc,           \* "none", "idle", "open" (writeFile pending), "writing"
  processedIds,    \* the in-memory Set, in insertion order
  stateFile,       \* the persisted snapshot: [kind, processedIds]
  pendingWrite,    \* the content handed to writeFile
  loaded,          \* load() has completed on this StateManager
  filterIn,        \* log: the last input of getUnprocessedMessages
  filterOut,       \* log: its result
  filtered,        \* log: getUnprocessedMessages ran since the last change of the set
  markArg,         \* log: the ids of the last markProcessed call
  beforeMark,      \* log: in-memory set and file when markProcessed was called
  writeCount,      \* log: completed writes of the last markProcessed call
  \* run
  run_pc,          \* "idle", "loading", "fetching", "extracting", "writing",
                   \* "marking", "done", "failed"
  allMessages,     \* what fetchMessages returned
  unprocessedMessages,
  reportWrites,    \* log: the release lists handed to the report writer
  markInvoked,     \* log: the run called markProcessed
  fileAtRunStart,  \* log: the persisted snapshot when the run began
  runs,            \* runs started
  \* two processes, each with a StateManager of its own, on one state file
  race_pc,         \* per process: "none", "idle", "loaded", "open", "writing",
                   \* "done", "failed" (load threw)
  raceSet,         \* per process: its in-memory Set, in insertion order
  raceLoaded,      \* log, per process: the snapshot its load() read
  raceMarked,      \* log, per process: the ids of its markProcessed call
  lastWriter       \* log: the process whose write completed last, 0 before

exVars == <<langfuse, ex_pc, messages, onProgress, prompt, config, langfuseResult, index, allReleases,
            returned, error, inFlight, requests, responses, progressCalls,
            progressSettled, progressFailed, events, lookups>>

smVars == <<sm_pc, processedIds, stateFile, pendingWrite, loaded, filterIn,
            filterOut, filtered, markArg, beforeMark, writeCount>>

runVars == <<run_pc, allMessages, unprocessedMessages, reportWrites,
             markInvoked, fileAtRunStart, runs>>

parserVars == <<parserInput, parserOutput>>

raceVars == <<race_pc, raceSet, raceLoaded, raceMarked, lastWriter>>

vars == <<driver, parserVars, raceVars, exVars, smVars, runVars>>

\* parseReleasesFromResponse has not returned yet
NotParsed == [result |-> <<>>, error |-> "none", stage |-> "none", events |-> <<>>]

NoFile == [kind |-> "missing", processedIds |-> <<>>]

\* a file opened for writing and not yet written: zero bytes
EmptyFile == [kind |-> "empty", processedIds |-> <<>>]

\* mutant: the last id of the set is left out of the file
JsonFileButLast(ids) ==
  [kind |-> "json",
   processedIds |-> IF ids = <<>> THEN ids ELSE SubSeq(ids, 1, Len(ids) - 1)]

\* JSON.stringify({processedIds: [...]}, null, 2)
JsonFile(ids) == [kind |-> "json", processedIds |-> ids]

\* what is left when a shorter content was written over the start of a
\* longer one: the new bytes and then the tail of the old ones, not JSON
GarbledFile == [kind |-> "garbled", processedIds |-> <<>>]

\* write(fd, content) at offset 0 of a file that was truncated when it was
\* opened.  The file holds bytes again when another process wrote in between:
\* they are covered when the new content is at least as long (the ids have
\* one length, so the longer array is the longer text), and their tail stays
\* behind otherwise.
WriteAtStart(file, content) ==
  IF file.kind \in {"missing", "empty"} THEN content
  ELSE IF file.kind = "json"
          /\ Len(file.processedIds) <= Len(content.processedIds) THEN content
  ELSE GarbledFile

\* the processes that share the state file
Procs == {1, 2}

\* a process on its own: there is no second StateManager
NoRace ==
  /\ race_pc = [p \in Procs |-> "none"]
  /\ raceSet = [p \in Procs |-> <<>>]
  /\ raceLoaded = [p \in Procs |-> NoFile]
  /\ raceMarked = [p \in Procs |-> <<>>]
  /\ lastWriter = 0

\* the snapshots a process can find when it starts
InitFiles == {NoFile, JsonFile(<<"m1">>)}

\* The state after construction.  The collaborator of the extractor is fixed
\* for the life of the process: run constructs its extractor without one
\* (index.ts:127, langfuse = "absent"); "disabled" and "enabled" are a process
\* wired with one.
Init ==
  /\ driver \in {"extract", "tracker", "run"}
  /\ parserInput = <<>>
  /\ parserOutput = NotParsed
  /\ NoRace
  /\ langfuse \in (IF driver = "tracker" THEN {"absent"}
                   ELSE {"absent", "disabled", "enabled"})
  /\ ex_pc = "idle"
  /\ messages = <<>>
  /\ onProgress = FALSE
  /\ prompt = ""
  /\ config = EmptyConfig
  /\ langfuseResult = "none"
  /\ index = 0
  /\ allReleases = <<>>
  /\ returned = <<>>
  /\ error = "none"
  /\ inFlight = 0
  /\ requests = <<>>
  /\ responses = <<>>
  /\ progressCalls = <<>>
  /\ progressSettled = 0
  /\ progressFailed = 0
  /\ events = <<>>
  /\ lookups = 0
  /\ sm_pc = "none"
  /\ processedIds = <<>>
  /\ stateFile \in InitFiles
  /\ pendingWrite = <<>>
  /\ loaded = FALSE
  /\ filterIn = <<>>
  /\ filterOut = <<>>
  /\ filtered = FALSE
  /\ markArg = <<>>
  /\ beforeMark = [memory |-> <<>>, file |-> stateFile]
  /\ writeCount = 0
  /\ run_pc = "idle"
  /\ allMessages = <<>>
  /\ unprocessedMessages = <<>>
  /\ reportWrites = <<>>
  /\ markInvoked = FALSE
  /\ fileAtRunStart = stateFile
  /\ runs = 0

(* ---------------------------- StateManager ----------------------------- *)

\* Set.prototype.add: insertion order, no duplicates
SetAdd(set, id) == IF id \in Range(set) THEN set ELSE Append(set, id)

\* new Set(array)
RECURSIVE NewSet(_)
NewSet(array) ==
  IF array = <<>> THEN <<>>
  ELSE SetAdd(NewSet(SubSeq(array, 1, Len(array) - 1)), array[Len(array)])

\* mutant: the loop stops one id short
AddAllButLast(set, ids) ==
  IF ids = <<>> THEN set ELSE NewSet(set \o SubSeq(ids, 1, Len(ids) - 1))

\* for (const id of ids) this.processedIds.add(id)
RECURSIVE AddAll(_, _)
AddAll(set, ids) ==
  IF ids = <<>> THEN set ELSE AddAll(SetAdd(set, Head(ids)), Tail(ids))

\* getUnprocessedMessages: messages.filter(msg => !processedIds.has(msg.id))
getUnprocessedMessages(msgs, set) ==
  SelectSeq(msgs, LAMBDA id : id \notin Range(set))

\* mutant: a missing file is an error (no existsSync test before readFile)
loadMissingThrows(file) ==
  IF file.kind = "json" THEN [ok |-> TRUE, set |-> NewSet(file.processedIds)]
  ELSE [ok |-> FALSE, set |-> <<>>]

\* mutant: load() reads the file and forgets to keep its ids
loadForgets(file) ==
  IF file.kind \in {"missing", "json"} THEN [ok |-> TRUE, set |-> <<>>]
  ELSE [ok |-> FALSE, set |-> <<>>]

\* load: [ok, set]; a missing file is the empty set, a file that is not JSON
\* makes JSON.parse throw
load(file) ==
  IF file.kind = "missing" THEN [ok |-> TRUE, set |-> <<>>]
  ELSE IF file.kind = "json" THEN [ok |-> TRUE, set |-> NewSet(file.processedIds)]
  ELSE [ok |-> FALSE, set |-> <<>>]

\* the logs start afresh when the in-memory set is replaced or extended
ResetFilterLog == filterIn' = <<>> /\ filterOut' = <<>> /\ filtered' = FALSE

ResetMarkLog ==
  /\ markArg' = <<>>
  /\ beforeMark' = [memory |-> <<>>, file |-> stateFile]
  /\ writeCount' = 0

\* markProcessed up to its await: the ids are added and persist() hands the
\* full set to writeFile
MarkProcessedCall(ids) ==
  /\ processedIds' = AddAll(processedIds, ids)
  /\ pendingWrite' = AddAll(processedIds, ids)
  /\ sm_pc' = "open"
  /\ markArg' = ids
  /\ beforeMark' = [memory |-> processedIds, file |-> stateFile]
  /\ writeCount' = 0
  /\ ResetFilterLog
  /\ UNCHANGED <<stateFile, loaded>>

\* new StateManager()
Construct ==
  /\ driver = "tracker"
  /\ sm_pc \in {"none", "idle"}
  /\ sm_pc' = "idle"
  /\ processedIds' = <<>>
  /\ loaded' = FALSE
  /\ ResetFilterLog
  /\ ResetMarkLog
  /\ UNCHANGED <<stateFile, pendingWrite>>
  /\ UNCHANGED <<driver, parserVars, raceVars, exVars, runVars>>

\* await stateManager.load()
Load ==
  /\ driver = "tracker"
  /\ sm_pc = "idle"
  /\ load(stateFile).ok
  /\ processedIds' = load(stateFile).set
  /\ loaded' = TRUE
  /\ ResetFilterLog
  /\ ResetMarkLog
  /\ UNCHANGED <<sm_pc, stateFile, pendingWrite>>
  /\ UNCHANGED <<driver, parserVars, raceVars, exVars, runVars>>

\* mutant: filtering also records the returned messages as processed
GetUnprocessedMarks ==
  /\ driver = "tracker"
  /\ sm_pc = "idle"
  /\ \E msgs \in Batches :
       /\ filterIn' = msgs
       /\ filterOut' = getUnprocessedMessages(msgs, processedIds)
       /\ processedIds' = AddAll(processedIds, getUnprocessedMessages(msgs, processedIds))
  /\ filtered' = TRUE
  /\ UNCHANGED <<sm_pc, stateFile, pendingWrite, loaded, markArg,
                 beforeMark, writeCount>>
  /\ UNCHANGED <<driver, parserVars, raceVars, exVars, runVars>>

\* stateManager.getUnprocessedMessages(msgs)
GetUnprocessed ==
  /\ driver = "tracker"
  /\ sm_pc = "idle"
  /\ \E msgs \in Batches :
       /\ filterIn' = msgs
       /\ filterOut' = getUnprocessedMessages(msgs, processedIds)
  /\ filtered' = TRUE
  /\ UNCHANGED <<sm_pc, processedIds, stateFile, pendingWrite, loaded, markArg,
                 beforeMark, writeCount>>
  /\ UNCHANGED <<driver, parserVars, raceVars, exVars, runVars>>

\* stateManager.markProcessed(ids), up to the await of the write
MarkProcessed ==
  /\ driver = "tracker"
  /\ sm_pc = "idle"
  /\ \E ids \in IdLists : MarkProcessedCall(ids)
  /\ UNCHANGED <<driver, parserVars, raceVars, exVars, runVars>>

\* writeFile opens the file for writing, which truncates it
WriteFileOpen ==
  /\ sm_pc = "open"
  /\ sm_pc' = "writing"
  /\ stateFile' = EmptyFile
  /\ UNCHANGED <<processedIds, pendingWrite, loaded, filterIn, filterOut,
                 filtered, markArg, beforeMark, writeCount>>
  /\ UNCHANGED <<driver, parserVars, raceVars, exVars, runVars>>

\* writeFile writes the content and its promise resolves
WriteFileWrite ==
  /\ sm_pc = "writing"
  /\ sm_pc' = "idle"
  /\ stateFile' = WriteAtStart(stateFile, JsonFile(pendingWrite))
  /\ writeCount' = writeCount + 1
  /\ UNCHANGED <<processedIds, pendingWrite, loaded, filterIn, filterOut,
                 filtered, markArg, beforeMark>>
  /\ UNCHANGED <<driver, parserVars, raceVars, exVars, runVars>>

(* --------------------------- extractReleases --------------------------- *)

Event(name, i) == [ev |-> name, index |-> i]

\* mutant: every request carries the whole batch
RequestWholeBatch(i, p, cfg) ==
  [index |-> i, messageId |-> messages[i],
   content |-> << <<p>>, <<>>, <<"Message to analyze:">>, <<>> >>
                 \o Flatten([j \in 1..Len(messages) |->
                               formatMessage(SlackMessage(messages[j]))]),
   model |-> Model(cfg), max_tokens |-> MaxTokens(cfg),
   temperature |-> cfg.temperature, top_p |-> cfg.top_p,
   headers |-> Headers(cfg)]

\* mutant: the config is applied to the first request only
RequestForgetsConfig(i, p, cfg) ==
  [index |-> i, messageId |-> messages[i],
   content |-> userContent(p, SlackMessage(messages[i])),
   model |-> IF i = 1 THEN Model(cfg) ELSE defaultModel,
   max_tokens |-> IF i = 1 THEN MaxTokens(cfg) ELSE defaultMaxTokens,
   temperature |-> IF i = 1 THEN cfg.temperature ELSE Undefined,
   top_p |-> IF i = 1 THEN cfg.top_p ELSE Undefined,
   headers |-> IF i = 1 THEN Headers(cfg) ELSE Headers(EmptyConfig)]

\* the completion request for the message at position i: the request body
\* (temperature and top_p are left out when undefined) and the headers
Request(i, p, cfg) ==
  [index |-> i, messageId |-> messages[i],
   content |-> userContent(p, SlackMessage(messages[i])),
   model |-> Model(cfg), max_tokens |-> MaxTokens(cfg),
   temperature |-> cfg.temperature, top_p |-> cfg.top_p,
   headers |-> Headers(cfg)]

\* mutant: the request of the next message is issued together with this one
AdvancePrefetching(i, p, cfg, rels, evs, fl) ==
  /\ index' = i
  /\ allReleases' = rels
  /\ IF i > Len(messages)
     THEN /\ ex_pc' = "returned"
          /\ returned' = rels
          /\ events' = evs
          /\ inFlight' = fl
          /\ requests' = requests
     ELSE /\ ex_pc' = "fetch"
          /\ returned' = returned
          /\ events' = evs \o <<Event("trace", i), Event("generation.start", i)>>
          /\ inFlight' = IF i < Len(messages) THEN fl + 2 ELSE fl + 1
          /\ requests' = IF i < Len(messages)
                         THEN requests \o <<Request(i, p, cfg), Request(i + 1, p, cfg)>>
                         ELSE Append(requests, Request(i, p, cfg))

\* mutant: past the last message the loop asks once more for the last one
AdvanceRetriesLast(i, p, cfg, rels, evs, fl) ==
  /\ allReleases' = rels
  /\ IF i > Len(messages) /\ Len(requests) > Len(messages)
     THEN /\ index' = i
          /\ ex_pc' = "returned"
          /\ returned' = rels
          /\ events' = evs
          /\ inFlight' = fl
          /\ requests' = requests
     ELSE LET j == IF i > Len(messages) THEN Len(messages) ELSE i
          IN  /\ index' = j
              /\ ex_pc' = "fetch"
              /\ returned' = returned
              /\ events' = evs \o <<Event("trace", j), Event("generation.start", j)>>
              /\ inFlight' = fl + 1
              /\ requests' = Append(requests, Request(j, p, cfg))

\* mutant: past the last message the call neither returns nor fails
AdvanceNeverReturns(i, p, cfg, rels, evs, fl) ==
  /\ index' = i
  /\ allReleases' = rels
  /\ returned' = returned
  /\ IF i > Len(messages)
     THEN /\ ex_pc' = "drain"
          /\ events' = evs
          /\ inFlight' = fl
          /\ requests' = requests
     ELSE /\ ex_pc' = "fetch"
          /\ events' = evs \o <<Event("trace", i), Event("generation.start", i)>>
          /\ inFlight' = fl + 1
          /\ requests' = Append(requests, Request(i, p, cfg))

\* The loop head with position i, prompt p, config cfg, releases rels, events evs and fl
\* requests in flight: past the last message the call returns, otherwise the message
\* is formatted, trace and generation are started and its request is issued,
\* and the call waits for the response (DUMP_LLM_INPUT is not set).
Advance(i, p, cfg, rels, evs, fl) ==
  /\ index' = i
  /\ allReleases' = rels
  /\ IF i > Len(messages)
     THEN /\ ex_pc' = "returned"
          /\ returned' = rels
          /\ events' = evs
          /\ inFlight' = fl
          /\ requests' = requests
     ELSE /\ ex_pc' = "fetch"
          /\ returned' = returned
          /\ events' = evs \o <<Event("trace", i), Event("generation.start", i)>>
          /\ inFlight' = fl + 1
          /\ requests' = Append(requests, Request(i, p, cfg))

\* the call fails with error e
Throw(e, evs, fl) ==
  /\ ex_pc' = "threw"
  /\ error' = e
  /\ events' = evs
  /\ inFlight' = fl
  /\ UNCHANGED <<index, allReleases, returned, requests>>

\* mutant: no early return for an empty batch
ExtractReleasesCallNoEarlyReturn(msgs, cb) ==
  /\ messages' = msgs
  /\ onProgress' = cb
  /\ prompt' = ""
  /\ config' = EmptyConfig
  /\ langfuseResult' = "none"
  /\ index' = 0
  /\ allReleases' = <<>>
  /\ returned' = <<>>
  /\ inFlight' = 0
  /\ requests' = <<>>
  /\ responses' = <<>>
  /\ progressCalls' = <<>>
  /\ progressSettled' = 0
  /\ progressFailed' = 0
  /\ events' = <<>>
  /\ UNCHANGED langfuse
  /\ IF langfuse = "enabled"
     THEN ex_pc' = "resolve" /\ error' = "none" /\ lookups' = 1
     ELSE ex_pc' = "threw" /\ error' = "langfuse_required" /\ lookups' = 0

\* mutant: without an enabled collaborator the call goes on with a prompt of
\* its own
ExtractReleasesCallOwnPrompt(msgs, cb) ==
  /\ messages' = msgs
  /\ onProgress' = cb
  /\ prompt' = ""
  /\ config' = EmptyConfig
  /\ langfuseResult' = "none"
  /\ index' = 0
  /\ allReleases' = <<>>
  /\ returned' = <<>>
  /\ inFlight' = 0
  /\ requests' = <<>>
  /\ responses' = <<>>
  /\ progressCalls' = <<>>
  /\ progressSettled' = 0
  /\ progressFailed' = 0
  /\ events' = <<>>
  /\ UNCHANGED langfuse
  /\ IF Len(msgs) = 0
     THEN ex_pc' = "returned" /\ error' = "none" /\ lookups' = 0
     ELSE ex_pc' = "resolve" /\ error' = "none"
          /\ lookups' = IF langfuse = "enabled" THEN 1 ELSE 0

\* extractReleases(msgs, cb) up to its first await
ExtractReleasesCall(msgs, cb) ==
  /\ messages' = msgs
  /\ onProgress' = cb
  /\ prompt' = ""
  /\ config' = EmptyConfig
  /\ langfuseResult' = "none"
  /\ index' = 0
  /\ allReleases' = <<>>
  /\ returned' = <<>>
  /\ inFlight' = 0
  /\ requests' = <<>>
  /\ responses' = <<>>
  /\ progressCalls' = <<>>
  /\ progressSettled' = 0
  /\ progressFailed' = 0
  /\ events' = <<>>
  /\ UNCHANGED langfuse
  /\ IF Len(msgs) = 0
     THEN ex_pc' = "returned" /\ error' = "none" /\ lookups' = 0
     ELSE IF langfuse = "enabled"
     THEN ex_pc' = "resolve" /\ error' = "none" /\ lookups' = 1
     ELSE ex_pc' = "threw" /\ error' = "langfuse_required" /\ lookups' = 0

\* a test or another caller invokes extractReleases
ExtractCall ==
  /\ driver = "extract"
  /\ ex_pc = "idle"
  /\ \E msgs \in Batches, cb \in BOOLEAN : ExtractReleasesCall(msgs, cb)
  /\ UNCHANGED <<driver, parserVars, raceVars, smVars, runVars>>

\* mutant: a missing registry entry falls back to a built-in prompt
ResolvePromptFallsBack ==
  /\ ex_pc = "resolve"
  /\ \E found \in BOOLEAN :
       IF found
       THEN \E raw \in RegistryConfigs :
              /\ langfuseResult' = "found"
              /\ prompt' = RegistryPrompt
              /\ config' = OpenRouterConfig(raw)
              /\ error' = error
              /\ Advance(1, RegistryPrompt, OpenRouterConfig(raw), <<>>, events, 0)
       ELSE /\ langfuseResult' = "null"
            /\ prompt' = "EXTRACTION_PROMPT"
            /\ config' = config
            /\ error' = error
            /\ Advance(1, "EXTRACTION_PROMPT", config, <<>>, events, 0)
  /\ UNCHANGED <<langfuse, messages, onProgress, responses, progressCalls,
                 progressSettled, progressFailed, lookups>>
  /\ UNCHANGED <<driver, parserVars, raceVars, smVars, runVars>>

\* getPromptWithConfig('release-extraction') answers
ResolvePrompt ==
  /\ ex_pc = "resolve"
  /\ \E found \in BOOLEAN :
       IF found
       THEN \E raw \in RegistryConfigs :
              /\ langfuseResult' = "found"
              /\ prompt' = RegistryPrompt
              /\ config' = OpenRouterConfig(raw)
              /\ error' = error
              /\ Advance(1, RegistryPrompt, OpenRouterConfig(raw), <<>>, events, 0)
       ELSE /\ langfuseResult' = "null"
            /\ prompt' = prompt
            /\ config' = config
            /\ Throw("prompt_not_found", events, 0)
  /\ UNCHANGED <<langfuse, messages, onProgress, responses, progressCalls,
                 progressSettled, progressFailed, lookups>>
  /\ UNCHANGED <<driver, parserVars, raceVars, smVars, runVars>>

\* mutant: reporting the warning for an empty content ends the call
ResponseKindWarningThrows(resp) ==
  IF ~resp.ok \/ resp.content = <<>> THEN "throw" ELSE "parse"

\* mutant: a non-success response is skipped like an empty one
ResponseKindSwallowsFailure(resp) ==
  IF resp.content = <<>> THEN "continue" ELSE "parse"

\* mutant: a response without content is handed to the parser
ResponseKindParsesEmpty(resp) ==
  IF ~resp.ok THEN "throw" ELSE "parse"

\* what the loop does with a response: "throw" on a non-success status,
\* "continue" when it carries no content, "parse" otherwise
ResponseKind(resp) ==
  IF ~resp.ok THEN "throw"
  ELSE IF resp.content = <<>> THEN "continue"
  ELSE "parse"

\* mutant: the parser's error is ignored and its empty result is used
ParserFailedIgnored(parsed) == FALSE

\* if (parsed.error) throw parsed.error
ParserFailed(parsed) == parsed.error # "none"

\* mutant: the new releases are put in front (unshift)
PushAllInFront(all, result) == result \o all

\* allReleases.push(...parsed.result)
PushAll(all, result) == all \o result

\* the completion endpoint answers the request in flight
ReceiveResponse ==
  /\ ex_pc = "fetch"
  /\ \E resp \in Responses :
       /\ responses' = Append(responses, resp)
       /\ IF ResponseKind(resp) = "throw"
          THEN /\ Throw("transport",
                        Append(events, Event("generation.end:ERROR", index)),
                        inFlight - 1)
               /\ progressCalls' = progressCalls
          ELSE IF ResponseKind(resp) = "continue"
          THEN /\ Advance(index + 1, prompt, config, allReleases,
                          Append(events, Event("generation.end:WARNING", index)),
                          inFlight - 1)
               /\ error' = error
               /\ progressCalls' = progressCalls
          ELSE LET parsed == parseReleasesFromResponse(resp.content)
                   evs    == Append(events, Event("generation.end:output", index))
                               \o [k \in 1..Len(parsed.events) |->
                                     Event(parsed.events[k], index)]
                   rels   == PushAll(allReleases, parsed.result)
               IN  IF ParserFailed(parsed)
                   THEN /\ Throw(parsed.error, evs, inFlight - 1)
                        /\ progressCalls' = progressCalls
                   ELSE IF onProgress
                   THEN /\ ex_pc' = "progress"
                        /\ allReleases' = rels
                        /\ events' = evs
                        /\ inFlight' = inFlight - 1
                        /\ progressCalls' =
                             Append(progressCalls,
                                    [releases |-> rels, message |-> messages[index],
                                     index |-> index - 1, total |-> Len(messages)])
                        /\ UNCHANGED <<index, returned, error, requests>>
                   ELSE /\ Advance(index + 1, prompt, config, rels, evs, inFlight - 1)
                        /\ error' = error
                        /\ progressCalls' = progressCalls
  /\ UNCHANGED <<langfuse, messages, onProgress, prompt, config, langfuseResult,
                 progressSettled, progressFailed, lookups>>
  /\ UNCHANGED <<driver, parserVars, raceVars, smVars, runVars>>

\* mutant: a failure of the progress callback is caught and ignored
ProgressDoneSwallows ==
  /\ ex_pc = "progress"
  /\ progressSettled' = progressSettled + 1
  /\ \E ok \in BOOLEAN :
       /\ progressFailed' = IF ok THEN progressFailed ELSE index
       /\ Advance(index + 1, prompt, config, allReleases, events, inFlight)
       /\ error' = error
  /\ UNCHANGED <<langfuse, messages, onProgress, prompt, config, langfuseResult,
                 responses, progressCalls, lookups>>
  /\ UNCHANGED <<driver, parserVars, raceVars, smVars, runVars>>

\* the progress callback settles: the loop goes on, or the callback's error
\* leaves extractReleases
ProgressDone ==
  /\ ex_pc = "progress"
  /\ progressSettled' = progressSettled + 1
  /\ \E ok \in BOOLEAN :
       IF ok
       THEN /\ progressFailed' = progressFailed
            /\ Advance(index + 1, prompt, config, allReleases, events, inFlight)
            /\ error' = error
       ELSE /\ progressFailed' = index
            /\ Throw("callback", events, inFlight)
  /\ UNCHANGED <<langfuse, messages, onProgress, prompt, config, langfuseResult,
                 responses, progressCalls, lookups>>
  /\ UNCHANGED <<driver, parserVars, raceVars, smVars, runVars>>

(* --------------------------------- run --------------------------------- *)

\* run: the StateManager is constructed and load() is awaited
RunStart ==
  /\ driver = "run"
  /\ run_pc \in {"idle", "done", "failed"}
  /\ runs < MaxRuns
  /\ runs' = runs + 1
  /\ run_pc' = "loading"
  /\ sm_pc' = "idle"
  /\ processedIds' = <<>>
  /\ loaded' = FALSE
  /\ ResetFilterLog
  /\ ResetMarkLog
  /\ allMessages' = <<>>
  /\ unprocessedMessages' = <<>>
  /\ reportWrites' = <<>>
  /\ markInvoked' = FALSE
  /\ fileAtRunStart' = stateFile
  /\ UNCHANGED <<stateFile, pendingWrite>>
  /\ UNCHANGED <<driver, parserVars, raceVars, exVars>>

\* load() settles and fetchMessages is awaited
RunLoad ==
  /\ run_pc = "loading"
  /\ IF load(stateFile).ok
     THEN /\ processedIds' = load(stateFile).set
          /\ loaded' = TRUE
          /\ run_pc' = "fetching"
     ELSE /\ run_pc' = "failed"
          /\ UNCHANGED <<processedIds, loaded>>
  /\ UNCHANGED <<sm_pc, stateFile, pendingWrite, filterIn, filterOut, filtered,
                 markArg, beforeMark, writeCount>>
  /\ UNCHANGED <<allMessages, unprocessedMessages, reportWrites, markInvoked,
                 fileAtRunStart, runs>>
  /\ UNCHANGED <<driver, parserVars, raceVars, exVars>>

\* fetchMessages fails
RunFetchFails ==
  /\ run_pc = "fetching"
  /\ run_pc' = "failed"
  /\ UNCHANGED <<allMessages, unprocessedMessages, reportWrites, markInvoked,
                 fileAtRunStart, runs>>
  /\ UNCHANGED <<driver, parserVars, raceVars, exVars, smVars>>

\* fetchMessages returns; the messages are filtered and, unless none is left,
\* extractReleases is called on the rest without a progress callback
RunFetch ==
  /\ run_pc = "fetching"
  /\ \E msgs \in Batches :
       LET rest == getUnprocessedMessages(msgs, processedIds)
       IN  /\ allMessages' = msgs
           /\ unprocessedMessages' = rest
           /\ filterIn' = msgs
           /\ filterOut' = rest
           /\ filtered' = TRUE
           /\ IF Len(rest) = 0
              THEN run_pc' = "done" /\ UNCHANGED exVars
              ELSE run_pc' = "extracting" /\ ExtractReleasesCall(rest, FALSE)
  /\ UNCHANGED <<sm_pc, processedIds, stateFile, pendingWrite, loaded, markArg,
                 beforeMark, writeCount>>
  /\ UNCHANGED <<reportWrites, markInvoked, fileAtRunStart, runs>>
  /\ UNCHANGED <<driver, parserVars, raceVars>>

\* markProcessed(unprocessedMessages.map(m => m.id)) is called by the run
RunMarkCall ==
  /\ run_pc' = "marking"
  /\ markInvoked' = TRUE
  /\ MarkProcessedCall(unprocessedMessages)

\* mutant: the run marks the batch whether or not extraction failed
RunExtractedMarksAnyway ==
  /\ run_pc = "extracting"
  /\ ex_pc \in {"returned", "threw"}
  /\ IF ex_pc = "returned" /\ Len(returned) > 0
     THEN /\ run_pc' = "writing"
          /\ reportWrites' = Append(reportWrites, returned)
          /\ UNCHANGED <<markInvoked, smVars>>
     ELSE /\ RunMarkCall
          /\ UNCHANGED reportWrites
  /\ UNCHANGED <<allMessages, unprocessedMessages, fileAtRunStart, runs>>
  /\ UNCHANGED <<driver, parserVars, raceVars, exVars>>

\* mutant: the batch is marked as soon as extraction returns, the report
\* writer is not awaited
RunExtractedSkipsWriter ==
  /\ run_pc = "extracting"
  /\ ex_pc \in {"returned", "threw"}
  /\ IF ex_pc = "threw"
     THEN /\ run_pc' = "failed"
          /\ UNCHANGED <<markInvoked, smVars>>
     ELSE RunMarkCall
  /\ UNCHANGED <<allMessages, unprocessedMessages, reportWrites, fileAtRunStart, runs>>
  /\ UNCHANGED <<driver, parserVars, raceVars, exVars>>

\* mutant: a batch without releases ends the run before markProcessed
RunExtractedSkipsEmpty ==
  /\ run_pc = "extracting"
  /\ ex_pc \in {"returned", "threw"}
  /\ IF ex_pc = "threw"
     THEN /\ run_pc' = "failed"
          /\ UNCHANGED reportWrites
     ELSE IF Len(returned) > 0
     THEN /\ run_pc' = "writing"
          /\ reportWrites' = Append(reportWrites, returned)
     ELSE /\ run_pc' = "done"
          /\ UNCHANGED reportWrites
  /\ UNCHANGED <<markInvoked, smVars>>
  /\ UNCHANGED <<allMessages, unprocessedMessages, fileAtRunStart, runs>>
  /\ UNCHANGED <<driver, parserVars, raceVars, exVars>>

\* extractReleases settles: an error ends the run; otherwise a non-empty
\* result goes to the report writer, an empty one straight to markProcessed
RunExtracted ==
  /\ run_pc = "extracting"
  /\ ex_pc \in {"returned", "threw"}
  /\ IF ex_pc = "threw"
     THEN /\ run_pc' = "failed"
          /\ UNCHANGED <<reportWrites, markInvoked, smVars>>
     ELSE IF Len(returned) > 0
     THEN /\ run_pc' = "writing"
          /\ reportWrites' = Append(reportWrites, returned)
          /\ UNCHANGED <<markInvoked, smVars>>
     ELSE /\ RunMarkCall
          /\ UNCHANGED reportWrites
  /\ UNCHANGED <<allMessages, unprocessedMessages, fileAtRunStart, runs>>
  /\ UNCHANGED <<driver, parserVars, raceVars, exVars>>

\* the report writer settles
RunWritten ==
  /\ run_pc = "writing"
  /\ \E ok \in BOOLEAN :
       IF ok
       THEN RunMarkCall
       ELSE run_pc' = "failed" /\ UNCHANGED <<markInvoked, smVars>>
  /\ UNCHANGED <<allMessages, unprocessedMessages, reportWrites, fileAtRunStart, runs>>
  /\ UNCHANGED <<driver, parserVars, raceVars, exVars>>

\* markProcessed settles and the run is done
RunMarked ==
  /\ run_pc = "marking"
  /\ sm_pc = "idle"
  /\ run_pc' = "done"
  /\ UNCHANGED <<allMessages, unprocessedMessages, reportWrites, markInvoked,
                 fileAtRunStart, runs>>
  /\ UNCHANGED <<driver, parserVars, raceVars, exVars, smVars>>

(* ------------------------ the parser on its own ------------------------ *)

\* parseReleasesFromResponse(textContent, ...) is called with a trace and a
\* generation
Parse ==
  /\ driver = "parser"
  /\ parserOutput = NotParsed
  /\ parserOutput' = parseReleasesFromResponse(parserInput)
  /\ UNCHANGED <<driver, parserInput, raceVars, exVars, smVars, runVars>>

(* ---------------------------- specification ---------------------------- *)

Next ==
  \/ Construct
  \/ Load
  \/ GetUnprocessed
  \/ MarkProcessed
  \/ WriteFileOpen
  \/ WriteFileWrite
  \/ ExtractCall
  \/ ResolvePrompt
  \/ ReceiveResponse
  \/ ProgressDone
  \/ RunStart
  \/ RunLoad
  \/ RunFetchFails
  \/ RunFetch
  \/ RunExtracted
  \/ RunWritten
  \/ RunMarked

Spec == Init /\ [][Next]_vars

\* the parser applied to one text
ParserInit ==
  /\ driver = "parser"
  /\ parserInput \in ParserTexts
  /\ parserOutput = NotParsed
  /\ NoRace
  /\ langfuse = "enabled"
  /\ ex_pc = "idle"
  /\ messages = <<>>
  /\ onProgress = FALSE
  /\ prompt = ""
  /\ config = EmptyConfig
  /\ langfuseResult = "none"
  /\ index = 0
  /\ allReleases = <<>>
  /\ returned = <<>>
  /\ error = "none"
  /\ inFlight = 0
  /\ requests = <<>>
  /\ responses = <<>>
  /\ progressCalls = <<>>
  /\ progressSettled = 0
  /\ progressFailed = 0
  /\ events = <<>>
  /\ lookups = 0
  /\ sm_pc = "none"
  /\ processedIds = <<>>
  /\ stateFile = NoFile
  /\ pendingWrite = <<>>
  /\ loaded = FALSE
  /\ filterIn = <<>>
  /\ filterOut = <<>>
  /\ filtered = FALSE
  /\ markArg = <<>>
  /\ beforeMark = [memory |-> <<>>, file |-> NoFile]
  /\ writeCount = 0
  /\ run_pc = "idle"
  /\ allMessages = <<>>
  /\ unprocessedMessages = <<>>
  /\ reportWrites = <<>>
  /\ markInvoked = FALSE
  /\ fileAtRunStart = NoFile
  /\ runs = 0

ParserNext == Parse

ParserSpec == ParserInit /\ [][ParserNext]_vars

(* ------------- one extractReleases call that is answered -------------- *)

\* one caller of extractReleases, nothing else
ExtractInit == Init /\ driver = "extract"

ExtractNext ==
  \/ ExtractCall
  \/ ResolvePrompt
  \/ ReceiveResponse
  \/ ProgressDone

\* every completion request is answered and every progress callback
\* settles; nothing is assumed of the registry lookup
FairSpec ==
  /\ ExtractInit
  /\ [][ExtractNext]_vars
  /\ WF_vars(ReceiveResponse)
  /\ WF_vars(ProgressDone)

(* ------------------- two processes on one state file ------------------- *)

\* everything but the state file and the two StateManagers stands still
RaceIdle ==
  UNCHANGED <<driver, parserVars, exVars, runVars, sm_pc, processedIds,
              pendingWrite, loaded, filterIn, filterOut, filtered, markArg,
              beforeMark, writeCount>>

\* process p: await state.load()
RaceLoad(p) ==
  /\ driver = "race"
  /\ race_pc[p] = "idle"
  /\ IF load(stateFile).ok
     THEN /\ race_pc' = [race_pc EXCEPT ![p] = "loaded"]
          /\ raceSet' = [raceSet EXCEPT ![p] = load(stateFile).set]
     ELSE /\ race_pc' = [race_pc EXCEPT ![p] = "failed"]
          /\ UNCHANGED raceSet
  /\ raceLoaded' = [raceLoaded EXCEPT ![p] = stateFile]
  /\ UNCHANGED <<raceMarked, lastWriter, stateFile>>
  /\ RaceIdle

\* process p: markProcessed(ids) up to its await: the ids are added and
\* persist() hands the full set to writeFile
RaceMarkProcessed(p) ==
  /\ driver = "race"
  /\ race_pc[p] = "loaded"
  /\ \E ids \in IdLists :
       /\ raceSet' = [raceSet EXCEPT ![p] = AddAll(raceSet[p], ids)]
       /\ raceMarked' = [raceMarked EXCEPT ![p] = ids]
  /\ race_pc' = [race_pc EXCEPT ![p] = "open"]
  /\ UNCHANGED <<raceLoaded, lastWriter, stateFile>>
  /\ RaceIdle

\* process p: writeFile opens the file, which truncates it
RaceWriteFileOpen(p) ==
  /\ driver = "race"
  /\ race_pc[p] = "open"
  /\ race_pc' = [race_pc EXCEPT ![p] = "writing"]
  /\ stateFile' = EmptyFile
  /\ UNCHANGED <<raceSet, raceLoaded, raceMarked, lastWriter>>
  /\ RaceIdle

\* process p: writeFile writes its content and its promise resolves
RaceWriteFileWrite(p) ==
  /\ driver = "race"
  /\ race_pc[p] = "writing"
  /\ race_pc' = [race_pc EXCEPT ![p] = "done"]
  /\ stateFile' = WriteAtStart(stateFile, JsonFile(raceSet[p]))
  /\ lastWriter' = p
  /\ UNCHANGED <<raceSet, raceLoaded, raceMarked>>
  /\ RaceIdle

\* two processes started on the same file, each with a new StateManager
RaceInit ==
  /\ driver = "race"
  /\ parserInput = <<>>
  /\ parserOutput = NotParsed
  /\ race_pc = [p \in Procs |-> "idle"]
  /\ raceSet = [p \in Procs |-> <<>>]
  /\ raceLoaded = [p \in Procs |-> NoFile]
  /\ raceMarked = [p \in Procs |-> <<>>]
  /\ lastWriter = 0
  /\ langfuse = "absent"
  /\ ex_pc = "idle"
  /\ messages = <<>>
  /\ onProgress = FALSE
  /\ prompt = ""
  /\ config = EmptyConfig
  /\ langfuseResult = "none"
  /\ index = 0
  /\ allReleases = <<>>
  /\ returned = <<>>
  /\ error = "none"
  /\ inFlight = 0
  /\ requests = <<>>
  /\ responses = <<>>
  /\ progressCalls = <<>>
  /\ progressSettled = 0
  /\ progressFailed = 0
  /\ events = <<>>
  /\ lookups = 0
  /\ sm_pc = "none"
  /\ processedIds = <<>>
  /\ stateFile \in InitFiles
  /\ pendingWrite = <<>>
  /\ loaded = FALSE
  /\ filterIn = <<>>
  /\ filterOut = <<>>
  /\ filtered = FALSE
  /\ markArg = <<>>
  /\ beforeMark = [memory |-> <<>>, file |-> NoFile]
  /\ writeCount = 0
  /\ run_pc = "idle"
  /\ allMessages = <<>>
  /\ unprocessedMessages = <<>>
  /\ reportWrites = <<>>
  /\ markInvoked = FALSE
  /\ fileAtRunStart = NoFile
  /\ runs = 0

RaceNext ==
  \E p \in Procs :
    \/ RaceLoad(p)
    \/ RaceMarkProcessed(p)
    \/ RaceWriteFileOpen(p)
    \/ RaceWriteFileWrite(p)

RaceSpec == RaceInit /\ [][RaceNext]_vars

(* ------------------------------- claims -------------------------------- *)

\* the releases the parser yields for a response the loop hands to it
ParsedOf(resp) ==
  IF resp.ok /\ resp.content # <<>>
  THEN parseReleasesFromResponse(resp.content).result
  ELSE <<>>

\* the response makes the parser report a failure
ParseFails(resp) ==
  resp.ok /\ resp.content # <<>> /\ parseReleasesFromResponse(resp.content).error # "none"

\* C1: when the k-th response of a batch is a non-success status,
\* extractReleases has raised the transport error, it has returned nothing,
\* the k-th request is the last one issued (none for a later message) and
\* each of the k messages was requested exactly once, in order (no retry).
C1_TransportFailureAborts ==
  \A k \in 1..Len(responses) :
    ~responses[k].ok =>
      /\ ex_pc = "threw"
      /\ error = "transport"
      /\ returned = <<>>
      /\ k = Len(responses)
      /\ Len(requests) = k
      /\ \A j \in 1..k : requests[j].index = j /\ requests[j].messageId = messages[j]
      /\ inFlight = 0

\* the second of three messages fails after the first one yielded releases
C1_Witness ==
  /\ ex_pc = "threw"
  /\ error = "transport"
  /\ Len(messages) = 3
  /\ Len(responses) = 2
  /\ Len(allReleases) > 0

\* the processed ids a fresh StateManager would track after load()
PersistedSet == Range(load(stateFile).set)

\* the extraction of the current run has raised an error
RunExtractionFailed ==
  /\ driver = "run"
  /\ unprocessedMessages # <<>>
  /\ ex_pc = "threw"

\* C2: in a run whose extraction ended in an error, the run is failing or has
\* failed, markProcessed has not been invoked, the persisted snapshot is the one the run started with, and
\* loading it afresh and filtering the same messages gives the same
\* unprocessed batch.
C2_FailedExtractionMarksNothing ==
  RunExtractionFailed =>
    /\ run_pc \in {"extracting", "failed"}
    /\ ~markInvoked
    /\ sm_pc = "idle"
    /\ stateFile = fileAtRunStart
    /\ getUnprocessedMessages(allMessages, load(stateFile).set) = unprocessedMessages

\* a second run fails on the transport error of its second message, after
\* the first message yielded releases
C2_Witness ==
  /\ run_pc = "failed"
  /\ RunExtractionFailed
  /\ error = "transport"
  /\ Len(responses) = 2
  /\ Len(allReleases) > 0
  /\ runs = 2

\* C3: when the parser reports a failure for the k-th response,
\* extractReleases has raised that very error (format or parse), it has
\* returned nothing, and the k-th request is the last one issued.
C3_ParserFailureAborts ==
  \A k \in 1..Len(responses) :
    ParseFails(responses[k]) =>
      /\ ex_pc = "threw"
      /\ error = parseReleasesFromResponse(responses[k].content).error
      /\ error \in {"format", "parse"}
      /\ returned = <<>>
      /\ k = Len(responses)
      /\ Len(requests) = k
      /\ inFlight = 0

\* the second of three responses is markdown, after the first yielded releases
C3_Witness ==
  /\ ex_pc = "threw"
  /\ error = "format"
  /\ Len(messages) = 3
  /\ Len(responses) = 2
  /\ Len(allReleases) > 0

\* C4: when extractReleases returns, its result is the concatenation, in
\* message order, of the release lists parsed from the responses, each list
\* in the order the parser gave it.
C4_ResultIsConcatenation ==
  ex_pc = "returned" =>
    /\ Len(responses) = Len(messages)
    /\ returned = Flatten([k \in 1..Len(responses) |-> ParsedOf(responses[k])])

\* two releases from the first message, then one from the second
C4_Witness ==
  /\ ex_pc = "returned"
  /\ Len(messages) = 2
  /\ ParsedOf(responses[1]) = <<"r1", "r2">>
  /\ ParsedOf(responses[2]) = <<"r2">>
  /\ returned = <<"r1", "r2", "r2">>

\* the ids of the batch other than that of the message at position i
OtherIds(i) == {messages[j] : j \in 1..Len(messages)} \ {messages[i]}

\* the tokens of a request content
TokensOf(content) == UNION {Range(content[l]) : l \in 1..Len(content)}

\* C5: when extractReleases returns from a non-empty batch of n messages, it
\* has issued exactly n requests, the i-th being that of the i-th message:
\* the resolved prompt first, then the formatted text of that message, and the
\* id of no other message of the batch in it.
C5_OneRequestPerMessage ==
  (ex_pc = "returned" /\ Len(messages) > 0) =>
    /\ Len(requests) = Len(messages)
    /\ \A i \in 1..Len(requests) :
         /\ requests[i].index = i
         /\ requests[i].messageId = messages[i]
         /\ Head(requests[i].content) = <<RegistryPrompt>>
         /\ SubSeq(requests[i].content, 5, Len(requests[i].content))
              = formatMessage(SlackMessage(messages[i]))
         /\ TokensOf(requests[i].content) \cap OtherIds(i) = {}

\* a batch of three returned
C5_Witness ==
  /\ ex_pc = "returned"
  /\ Len(messages) = 3
  /\ Len(requests) = 3

\* the releases accumulated from the first n responses
AccumulatedUpTo(n) == Flatten([k \in 1..n |-> ParsedOf(responses[k])])

\* C6: at most one completion request is in flight, and none while the
\* progress callback runs; while the request of the message at position i is
\* in flight, every earlier response has been received and was a success,
\* its releases (none for an empty content) are in the result, and every
\* progress callback invoked has settled, one for each earlier response with
\* content when a callback was supplied.
C6_SingleFlight ==
  /\ inFlight \in {0, 1}
  /\ (inFlight = 1) <=> (ex_pc = "fetch")
  /\ ex_pc = "fetch" =>
       /\ Len(requests) = index
       /\ Len(responses) = index - 1
       /\ \A j \in 1..Len(responses) : responses[j].ok /\ ~ParseFails(responses[j])
       /\ allReleases = AccumulatedUpTo(Len(responses))
       /\ progressSettled = Len(progressCalls)
       /\ onProgress =>
            Len(progressCalls) =
              Cardinality({j \in 1..Len(responses) : responses[j].content # <<>>})

\* the third request is in flight after two progress callbacks settled
C6_Witness ==
  /\ ex_pc = "fetch"
  /\ index = 3
  /\ onProgress
  /\ progressSettled = 2
  /\ Len(allReleases) > 0

\* a markProcessed call has completed and the set was not replaced since
MarkCompleted == sm_pc = "idle" /\ writeCount = 1

\* the ids tracked after the last markProcessed call
TrackedAfterMark == Range(beforeMark.memory) \cup Range(markArg)

\* C7: after markProcessed(ids) has completed, getUnprocessedMessages returns
\* exactly the messages of its input, in order, whose id is neither in ids
\* nor was tracked before; and with the tracked set {m1}, filtering [m1, m2]
\* gives [m2].
C7_MarkedIdsAreFiltered ==
  /\ (MarkCompleted /\ filtered) =>
       filterOut = SelectSeq(filterIn, LAMBDA id : id \notin TrackedAfterMark)
  /\ (filtered /\ Range(processedIds) = {"m1"} /\ filterIn = <<"m1", "m2">>) =>
       filterOut = <<"m2">>

\* tracked {m1}, markProcessed([m2]) completed, filtering [m1, m2] gave []
C7_Witness ==
  /\ MarkCompleted
  /\ beforeMark.memory = <<"m1">>
  /\ markArg = <<"m2">>
  /\ filtered
  /\ filterIn = <<"m1", "m2">>
  /\ filterOut = <<>>

\* C8 as claimed: whatever the sequence of StateManager operations, a
\* completed markProcessed leaves every id persisted before it in the
\* persisted snapshot (no other operation writes the snapshot).
C8_NeverShrinks ==
  MarkCompleted => Range(beforeMark.file.processedIds) \subseteq PersistedSet

\* C8 amended: a completed markProcessed on a StateManager whose load() has
\* completed leaves every id persisted before it in the persisted snapshot.
C8_NeverShrinksAfterLoad ==
  (MarkCompleted /\ loaded) =>
    Range(beforeMark.file.processedIds) \subseteq PersistedSet

\* a loaded StateManager with snapshot [m1] has marked m2
C8_Witness ==
  /\ MarkCompleted
  /\ loaded
  /\ beforeMark.file = JsonFile(<<"m1">>)
  /\ markArg = <<"m2">>
  /\ stateFile = JsonFile(<<"m1", "m2">>)

\* a step in which getUnprocessedMessages ran
FilterStep ==
  filtered' /\ (~filtered \/ filterIn' # filterIn \/ filterOut' # filterOut)

\* C9: getUnprocessedMessages returns a subsequence of its input, in the
\* input's order, and changes neither the in-memory set nor the persisted
\* snapshot; the list the run passed in is the list it still holds.
C9_FilterIsPure ==
  [][FilterStep =>
       /\ IsSubsequence(filterOut', filterIn')
       /\ processedIds' = processedIds
       /\ stateFile' = stateFile
       /\ (driver = "run" => allMessages' = filterIn')]_vars

\* three messages were filtered to two with a non-empty tracked set
C9_Witness ==
  /\ driver = "tracker"
  /\ filtered
  /\ processedIds # <<>>
  /\ Len(filterIn) = 3
  /\ Len(filterOut) = 2

\* C10 as claimed: from the call of markProcessed(ids) on, the in-memory set
\* is the previous set united with ids, at most one write is performed, and
\* the persisted snapshot is at every moment the snapshot before the call or
\* the full set, and the full set once the call has completed.
C10_AtomicFullSetWrite ==
  (sm_pc \in {"open", "writing"} \/ MarkCompleted) =>
    /\ Range(processedIds) = TrackedAfterMark
    /\ writeCount <= 1
    /\ \/ stateFile = beforeMark.file
       \/ stateFile = JsonFile(AddAll(beforeMark.memory, markArg))
    /\ MarkCompleted => stateFile = JsonFile(AddAll(beforeMark.memory, markArg))

\* C11: load() on a missing snapshot succeeds, and while the snapshot is
\* still missing after a completed load() the tracked set is empty and
\* getUnprocessedMessages has returned its whole input; a run that finds no
\* snapshot goes on to fetch messages.
C11_MissingSnapshotIsEmptySet ==
  /\ load(NoFile).ok
  /\ (loaded /\ stateFile = NoFile /\ sm_pc = "idle") =>
       /\ processedIds = <<>>
       /\ filtered => filterOut = filterIn
  /\ (run_pc = "failed" /\ fileAtRunStart = NoFile) => loaded

\* no snapshot, load(), and filtering three messages gave all three
C11_Witness ==
  /\ driver = "tracker"
  /\ loaded
  /\ stateFile = NoFile
  /\ sm_pc = "idle"
  /\ filtered
  /\ Len(filterIn) = 3
  /\ filterOut = filterIn

\* C12: when the registry lookup of an extractReleases call gave nothing, the
\* registry was enabled and the batch non-empty, the call has failed with the
\* missing-prompt configuration error, no completion request was issued and
\* none is in flight, no prompt was put in place and nothing was returned.
C12_MissingPromptIsFatal ==
  langfuseResult = "null" =>
    /\ langfuse = "enabled"
    /\ Len(messages) > 0
    /\ lookups = 1
    /\ ex_pc = "threw"
    /\ error = "prompt_not_found"
    /\ requests = <<>>
    /\ responses = <<>>
    /\ inFlight = 0
    /\ prompt = ""
    /\ returned = <<>>

\* the lookup gave nothing for a batch of three
C12_Witness ==
  /\ driver = "extract"
  /\ langfuseResult = "null"
  /\ Len(messages) = 3
  /\ ex_pc = "threw"

\* C13: extractReleases called on an empty batch has returned the empty list
\* without an error, whatever the collaborator, and has made no registry
\* lookup, issued no completion request and emitted no observability event.
C13_EmptyBatchNoCalls ==
  (ex_pc # "idle" /\ messages = <<>>) =>
    /\ ex_pc = "returned"
    /\ returned = <<>>
    /\ error = "none"
    /\ lookups = 0
    /\ langfuseResult = "none"
    /\ requests = <<>>
    /\ inFlight = 0
    /\ events = <<>>
    /\ progressCalls = <<>>

\* an empty batch handed to an extractor whose registry is enabled
C13_Witness ==
  /\ driver = "extract"
  /\ ex_pc = "returned"
  /\ messages = <<>>
  /\ langfuse = "enabled"

\* what a completion request has in common with the others of its call
RequestParameters(r) ==
  [prompt |-> Head(r.content), model |-> r.model, max_tokens |-> r.max_tokens,
   temperature |-> r.temperature, top_p |-> r.top_p, headers |-> r.headers]

\* C14: an extractReleases call queries the registry at most once, and
\* exactly once when it has issued a request, however many messages the
\* batch has; every request it has issued carries the prompt the registry
\* gave and the model, max_tokens, temperature, top_p and headers that follow
\* from the config the registry gave, so all its requests agree on them.
C14_OneLookupSameParameters ==
  /\ lookups \in {0, 1}
  /\ requests # <<>> => (lookups = 1 /\ langfuseResult = "found")
  /\ \A i \in 1..Len(requests) :
       /\ RequestParameters(requests[i]) =
            [prompt |-> <<RegistryPrompt>>, model |-> Model(config),
             max_tokens |-> MaxTokens(config), temperature |-> config.temperature,
             top_p |-> config.top_p, headers |-> Headers(config)]
       /\ RequestParameters(requests[i]) = RequestParameters(requests[1])

\* three requests under a config that names a model and temperature 0
C14_Witness ==
  /\ Len(requests) = 3
  /\ lookups = 1
  /\ requests[3].model = "openai/gpt-4o"
  /\ requests[3].max_tokens = defaultMaxTokens
  /\ requests[3].temperature = "0"
  /\ requests[3].headers.HTTPReferer = "https://example.org"

\* C15 as claimed: when a progress callback was supplied, then while the next
\* request is in flight or after the call returned, the callback has been
\* invoked once for each response received (each a success without a parser
\* error), in order, the k-th invocation carrying the releases accumulated
\* from the first k responses, the k-th message, index k-1 and the batch size.
C15_ProgressPerMessage ==
  (onProgress /\ ex_pc \in {"fetch", "returned"}) =>
    /\ Len(progressCalls) = Len(responses)
    /\ \A k \in 1..Len(progressCalls) :
         progressCalls[k] = [releases |-> AccumulatedUpTo(k), message |-> messages[k],
                             index |-> k - 1, total |-> Len(messages)]

\* C16: when the progress callback has failed for the message at position k,
\* extractReleases has failed with the callback's error, it has returned
\* nothing, and the request of message k is the last one issued.
C16_CallbackFailureAborts ==
  progressFailed # 0 =>
    /\ ex_pc = "threw"
    /\ error = "callback"
    /\ returned = <<>>
    /\ Len(requests) = progressFailed
    /\ Len(responses) = progressFailed
    /\ inFlight = 0

\* the callback failed for the second of three messages, releases in hand
C16_Witness ==
  /\ progressFailed = 2
  /\ Len(messages) = 3
  /\ Len(allReleases) > 0
  /\ ex_pc = "threw"

\* extractReleases has settled
Terminal == ex_pc \in {"returned", "threw"}

\* what extractReleases returned or raised
Outcome == [returned |-> returned, error |-> error]

\* the outcome that the messages, the registry's answer, the responses of the
\* endpoint and the callback's outcome determine
ExpectedOutcome ==
  LET n    == Len(responses)
      fail(e) == [returned |-> <<>>, error |-> e]
  IN  IF messages = <<>> THEN [returned |-> <<>>, error |-> "none"]
      ELSE IF langfuseResult = "null" THEN fail("prompt_not_found")
      ELSE IF n > 0 /\ ~responses[n].ok THEN fail("transport")
      ELSE IF n > 0 /\ ParseFails(responses[n])
      THEN fail(parseReleasesFromResponse(responses[n].content).error)
      ELSE IF progressFailed # 0 THEN fail("callback")
      ELSE [returned |-> AccumulatedUpTo(n), error |-> "none"]

EventsOf(i) == SelectSeq(events, LAMBDA e : e.index = i)

GenerationEndEvents ==
  {"generation.end:output", "generation.end:ERROR", "generation.end:WARNING"}

\* the generation-end events of the message at position i
GenerationEnds(i) == SelectSeq(EventsOf(i), LAMBDA e : e.ev \in GenerationEndEvents)

\* C18 as claimed: with observability enabled, each request issued was
\* preceded by the trace and generation-start events of its message, no
\* generation-end event exists for a request still in flight, and once its
\* response was received exactly one generation-end event follows the start:
\* success for a response with content, a warning for an empty one, an error
\* for a non-success response.
C18_OneGenerationEnd ==
  langfuse = "enabled" =>
    \A i \in 1..Len(requests) :
      /\ Len(EventsOf(i)) >= 2
      /\ EventsOf(i)[1].ev = "trace"
      /\ EventsOf(i)[2].ev = "generation.start"
      /\ Len(GenerationEnds(i)) = IF i <= Len(responses) THEN 1 ELSE 0
      /\ i <= Len(responses) =>
           /\ EventsOf(i)[3] = GenerationEnds(i)[1]
           /\ GenerationEnds(i)[1].ev =
                IF ~responses[i].ok THEN "generation.end:ERROR"
                ELSE IF responses[i].content = <<>> THEN "generation.end:WARNING"
                ELSE "generation.end:output"

\* C19: the parser's stages run in order, each only when the one before
\* failed: the direct parse decides exactly when JSON.parse of the
\* fence-stripped text does not throw, and then no repair is attempted; the
\* repair decides only when the direct parse threw and the repaired text
\* parses, and then the array of the repaired text is returned without an
\* error; the classification is reached exactly when the direct parse threw
\* and the repair threw or its text does not parse, and only then is there
\* an error.
C19_StagesInOrder ==
  parserOutput # NotParsed =>
    LET jsonText == StripFence(parserInput)
        direct   == tryParse(jsonText)
        repaired == jsonrepair(jsonText)
        again    == tryParse(repaired.text)
    IN  /\ parserOutput.stage \in {"direct", "repair", "classify"}
        /\ (parserOutput.stage = "direct") <=> ~direct.isNull
        /\ parserOutput.stage = "direct" =>
             (parserOutput.result = direct.releases /\ parserOutput.error = "none")
        /\ parserOutput.stage = "repair" =>
             /\ direct.isNull
             /\ ~repaired.thrown
             /\ ~again.isNull
             /\ parserOutput.result = again.releases
             /\ parserOutput.error = "none"
        /\ (parserOutput.stage = "classify") <=>
             (direct.isNull /\ (repaired.thrown \/ again.isNull))
        /\ (parserOutput.error # "none") <=> (parserOutput.stage = "classify")

\* a truncated array of two releases was recovered by the repair
C19_Witness ==
  /\ parserInput = <<"[", "r1", ",", "r2">>
  /\ parserOutput.stage = "repair"
  /\ parserOutput.result = <<"r1", "r2">>
  /\ parserOutput.error = "none"

\* the markdown signals of a text: it starts, trimmed, with '#' or with a
\* fence marker, or it holds '##' anywhere
MarkdownSignals(t) ==
  \/ (Trim(t) # <<>> /\ Trim(t)[1] \in {"#", "##", FenceMarker})
  \/ "##" \in Range(t)

\* C20 as claimed: when every parse stage failed the parser returns an empty
\* result with the format error if the original text shows a markdown
\* signal and with the generic parse error otherwise; a response
\* beginning with '# Summary' gives the format error and the response
\* 'not json at all' the generic parse error.
C20_FailureClassification ==
  parserOutput # NotParsed =>
    /\ parserOutput.stage = "classify" =>
         /\ parserOutput.result = <<>>
         /\ parserOutput.error = IF MarkdownSignals(parserInput) THEN "format" ELSE "parse"
    /\ parserInput = NotJsonAtAll => parserOutput.error = "parse"
    /\ (Len(parserInput) >= 3 /\ SubSeq(parserInput, 1, 3) = HashSummary) =>
         parserOutput.error = "format"

\* t inside a fenced block: an opening fence line (with the language tag
\* when tagged), t, a closing fence line
FencedBlock(t, tagged) ==
  (IF tagged THEN <<FenceMarker, "json", "\n">> ELSE <<FenceMarker, "\n">>)
    \o t \o <<"\n", FenceMarker>>

\* C21 as claimed: the parser's outcome on a text inside a fenced block, with
\* or without a language tag, is its outcome on the text alone: the same
\* releases and the same kind of failure.
C21_FenceTransparent ==
  parserOutput # NotParsed =>
    \A tagged \in BOOLEAN :
      LET fenced == parseReleasesFromResponse(FencedBlock(parserInput, tagged))
      IN  /\ fenced.result = parserOutput.result
          /\ fenced.error = parserOutput.error

\* C21 amended: for a text that does not itself begin with a fence marker,
\* the parser returns the same releases for the text inside a fenced block
\* as for the text alone and fails on the one exactly when it fails on the
\* other, with the decision taken at the same stage; the failure of the
\* fenced text is always the format error.
C21_FenceTransparentButForKind ==
  (parserOutput # NotParsed /\ ~StartsWithFence(Trim(parserInput))) =>
    \A tagged \in BOOLEAN :
      LET fenced == parseReleasesFromResponse(FencedBlock(parserInput, tagged))
      IN  /\ fenced.result = parserOutput.result
          /\ fenced.stage = parserOutput.stage
          /\ (fenced.error = "none") <=> (parserOutput.error = "none")
          /\ fenced.error \in {"none", "format"}

\* a truncated array of two releases, alone and inside a fenced block
C21_Witness ==
  /\ parserInput = <<"[", "r1", ",", "r2">>
  /\ parserOutput.result = <<"r1", "r2">>
  /\ parseReleasesFromResponse(FencedBlock(parserInput, TRUE)).result = <<"r1", "r2">>
  /\ parseReleasesFromResponse(FencedBlock(parserInput, TRUE)).stage = "repair"

\* the text is, fence-stripped, valid JSON and no array
NonArrayJson(t) ==
  JsonParse(StripFence(t)).ok /\ ~JsonParse(StripFence(t)).isArray

\* an object and two strings, bare and in every wrapping: each is JSON and no
\* array, and the parser gives the empty list from the direct parse
NonArrayTextsGiveEmptyList ==
  \A t \in {<<"{", "}">>, <<"r1">>, <<"s">>} : \A w \in Wrappings(t) :
    /\ NonArrayJson(w)
    /\ parseReleasesFromResponse(w).result = <<>>
    /\ parseReleasesFromResponse(w).error = "none"
    /\ parseReleasesFromResponse(w).stage = "direct"

\* C22: for a text that is, fence-stripped, valid JSON but no array (an
\* object, a string), the parser returns the empty list without an error
\* from the direct parse, no repair being attempted; a response with such a
\* text adds no release, raises no error, and once it is handled the request
\* of the next message is issued, or the call returns after the last one.
C22_NonArrayIsEmptyList ==
  /\ NonArrayTextsGiveEmptyList
  /\ \A k \in 1..Len(responses) :
       (responses[k].ok /\ responses[k].content # <<>>
          /\ NonArrayJson(responses[k].content)) =>
         /\ ParsedOf(responses[k]) = <<>>
         /\ ~ParseFails(responses[k])
         /\ k = Len(responses) =>
              /\ ex_pc \in {"fetch", "progress", "returned", "threw"}
              /\ ex_pc = "threw" => error = "callback"
              /\ ex_pc = "progress" => onProgress
              /\ ex_pc = "fetch" => (k < Len(messages) /\ Len(requests) = k + 1)
              /\ ex_pc = "returned" => k = Len(messages)
              /\ ex_pc \in {"fetch", "progress", "returned"} =>
                   allReleases = AccumulatedUpTo(k - 1)

\* the first of two responses was an object; the second request is in flight
C22_Witness ==
  /\ Len(messages) = 2
  /\ Len(responses) = 1
  /\ responses[1].content = <<"{", "}">>
  /\ ex_pc = "fetch"
  /\ Len(requests) = 2
  /\ allReleases = <<>>

\* the formatted message inside the content of a request: what follows the
\* prompt, the blank line, 'Message to analyze:' and the blank line
FormattedIn(request) == SubSeq(request.content, 5, Len(request.content))

\* the line carries the id, the date and the author label of the reply
CarriesReply(line, reply) ==
  /\ reply.id \in Range(line)
  /\ IsoDate(reply.timestamp) \in Range(line)
  /\ IF reply.username # "" THEN reply.username \in Range(line)
     ELSE {"user-", Substring8(reply.userId)} \subseteq Range(line)

\* C23 as claimed: the formatted text of a message with k thread replies has
\* exactly k+1 lines: the parent line with the parent's id and date, then
\* one line per reply in order, each with the reply's id, date and author.
C23_OneLinePerReply ==
  \A i \in 1..Len(requests) :
    LET message == SlackMessage(requests[i].messageId)
        replies == message.threadReplies
        lines   == FormattedIn(requests[i])
    IN  /\ Len(lines) = Len(replies) + 1
        /\ {message.id, IsoDate(message.timestamp)} \subseteq Range(lines[1])
        /\ \A j \in 1..Len(replies) : CarriesReply(lines[j + 1], replies[j])

\* C23 amended: the formatted text of a message without thread replies is
\* the parent line alone; with k >= 1 replies it has k+2 lines: the parent
\* line with the parent's id and date, a header line with the number of
\* replies, then one line per reply in order, each with the reply's id,
\* date and author label (the username, or user- and the first eight
\* characters of the user id).
C23_HeaderAndOneLinePerReply ==
  \A i \in 1..Len(requests) :
    LET message == SlackMessage(requests[i].messageId)
        replies == message.threadReplies
        lines   == FormattedIn(requests[i])
    IN  /\ Len(lines) = IF Len(replies) = 0 THEN 1 ELSE Len(replies) + 2
        /\ {message.id, IsoDate(message.timestamp), message.text} \subseteq Range(lines[1])
        /\ Len(replies) > 0 =>
             /\ lines[2] = <<"  [Thread replies (", ToString(Len(replies)), "):]">>
             /\ \A j \in 1..Len(replies) : CarriesReply(lines[j + 2], replies[j])

\* the request of m2, which has two replies, one of them without username:
\* four lines after the prompt block
C23_Witness ==
  \E i \in 1..Len(requests) :
    /\ requests[i].messageId = "m2"
    /\ Len(FormattedIn(requests[i])) = 4
    /\ "user-" \in Range(FormattedIn(requests[i])[4])

\* C24: when two processes have loaded the same snapshot and each has
\* completed markProcessed with ids the other did not mark, the persisted file
\* is exactly the set of the process that wrote last: it holds the ids that
\* process marked, and none that only the other one marked.
BothMarked == \A p \in Procs : race_pc[p] = "done"

SameSnapshot == raceLoaded[1] = raceLoaded[2]

DifferentIds ==
  /\ raceMarked[1] # <<>>
  /\ raceMarked[2] # <<>>
  /\ Range(raceMarked[1]) \cap Range(raceMarked[2]) = {}

EarlierWriter == IF lastWriter = 1 THEN 2 ELSE 1

C24_LastWriterWins ==
  (BothMarked /\ SameSnapshot /\ DifferentIds)
    => /\ stateFile = JsonFile(raceSet[lastWriter])
       /\ Range(raceMarked[lastWriter]) \subseteq PersistedSet
       /\ \A id \in Range(raceMarked[EarlierWriter]) \ Range(raceSet[lastWriter]) :
            id \notin PersistedSet

\* C25: a success response without content adds no release and raises no
\* error, the parser is not invoked for it (its only events are the trace, the
\* generation start and the warning that ends the generation), and the loop
\* goes on: the request of the next message is issued, or the call returns
\* when the message was the last of the batch.
EmptyContent(i) == responses[i].ok /\ responses[i].content = <<>>

C25_EmptyContentContinues ==
  \A i \in 1..Len(responses) :
    EmptyContent(i) =>
      /\ EventsOf(i) = <<Event("trace", i), Event("generation.start", i),
                         Event("generation.end:WARNING", i)>>
      /\ i < Len(responses) => Len(requests) > i
      /\ i = Len(responses) =>
           /\ error = "none"
           /\ IF i < Len(messages)
              THEN /\ ex_pc = "fetch"
                   /\ Len(requests) = i + 1
                   /\ requests[i + 1].messageId = messages[i + 1]
                   /\ allReleases = AccumulatedUpTo(i - 1)
              ELSE /\ ex_pc = "returned"
                   /\ returned = AccumulatedUpTo(i - 1)

\* the second of three responses had no content, the first gave releases, and
\* the third request is in flight
C25_Witness ==
  /\ Len(messages) = 3
  /\ Len(responses) = 2
  /\ EmptyContent(2)
  /\ Len(allReleases) > 0
  /\ ex_pc = "fetch"
  /\ Len(requests) = 3

\* an id of the batch of the current run is in the persisted snapshot
BatchIdPersisted == Range(unprocessedMessages) \cap PersistedSet # {}

\* the report write of the current run has failed: the run failed after
\* extractReleases returned releases
ReportWriteFailed ==
  driver = "run" /\ run_pc = "failed" /\ ex_pc = "returned" /\ reportWrites # <<>>

\* C26: in a run, whenever an id of the batch is in the persisted snapshot,
\* extraction has returned and its releases, when there are any, have been
\* handed to the report writer (once, all of them); and when the report write
\* has failed, markProcessed was not called, no id of the batch is persisted
\* and the snapshot is the one the run started with.
C26_ReportBeforeMark ==
  driver = "run" =>
    /\ (markInvoked \/ BatchIdPersisted) =>
         /\ ex_pc = "returned"
         /\ Len(returned) > 0 => reportWrites = <<returned>>
    /\ ReportWriteFailed =>
         /\ ~markInvoked
         /\ ~BatchIdPersisted
         /\ stateFile = fileAtRunStart

\* a run has written releases to the report and then persisted its batch
C26_Witness ==
  /\ driver = "run"
  /\ run_pc = "done"
  /\ Len(returned) > 0
  /\ reportWrites = <<returned>>
  /\ BatchIdPersisted

\* a run whose report write failed
C26_WitnessWriteFailed == ReportWriteFailed /\ unprocessedMessages # <<>>

\* the run has ended, with or without an error, and its extraction had
\* returned
RunEndedAfterExtraction ==
  /\ driver = "run"
  /\ run_pc \in {"done", "failed"}
  /\ unprocessedMessages # <<>>
  /\ ex_pc = "returned"

\* every id of the batch is persisted, so that the filter of a later run
\* leaves none of these messages
BatchPersisted ==
  /\ Range(unprocessedMessages) \subseteq PersistedSet
  /\ getUnprocessedMessages(allMessages, load(stateFile).set) = <<>>

C28_CollaboratorRequired ==
  (ex_pc # "idle" /\ messages # <<>> /\ langfuse # "enabled") =>
    /\ ex_pc = "threw"
    /\ error = "langfuse_required"
    /\ lookups = 0
    /\ langfuseResult = "none"
    /\ prompt = ""
    /\ requests = <<>>
    /\ responses = <<>>
    /\ inFlight = 0
    /\ returned = <<>>

\* a batch of three handed to an extractor whose collaborator is disabled
C28_Witness ==
  /\ driver = "extract"
  /\ langfuse = "disabled"
  /\ Len(messages) = 3
  /\ ex_pc = "threw"

\* the same with no collaborator at all, as run builds its extractor
C28_WitnessAbsent ==
  /\ driver = "run"
  /\ langfuse = "absent"
  /\ Len(messages) > 0
  /\ run_pc = "failed"
  /\ error = "langfuse_required"

\* the ids persisted when the last markProcessed call was made
PersistedBeforeMark == Range(load(beforeMark.file).set)

\* a StateManager that has loaded the file and has not marked since
FreshlyLoaded == loaded /\ sm_pc = "idle" /\ markArg = <<>>

\* C29: after markProcessed has completed, the file loads, and load() gives
\* exactly the ids the StateManager tracks, each once: those tracked before
\* the call and those of the call, an id listed twice counting once; a
\* StateManager that has just loaded the file tracks exactly the persisted
\* ids; and when every id of the call was tracked already, the persisted set
\* is what it was before the call.
C29_RoundTrip ==
  /\ MarkCompleted =>
       /\ load(stateFile).ok
       /\ load(stateFile).set = processedIds
       /\ NoDup(stateFile.processedIds)
       /\ PersistedSet = Range(beforeMark.memory) \cup Range(markArg)
       /\ (markArg # <<>> /\ Range(markArg) \subseteq Range(beforeMark.memory))
            => PersistedSet = PersistedBeforeMark
  /\ FreshlyLoaded => Range(processedIds) = PersistedSet

\* markProcessed(['m2', 'm2']) has completed on a StateManager that tracked m1
C29_Witness ==
  /\ driver = "tracker"
  /\ MarkCompleted
  /\ beforeMark.memory = <<"m1">>
  /\ markArg = <<"m2", "m2">>
  /\ PersistedSet = {"m1", "m2"}

\* a StateManager that loaded two ids persisted by a markProcessed call
C29_WitnessLoaded ==
  /\ driver = "tracker"
  /\ FreshlyLoaded
  /\ Len(processedIds) = 2

\* two ids tracked already were marked again
C29_WitnessMarkedAgain ==
  /\ driver = "tracker"
  /\ MarkCompleted
  /\ Len(beforeMark.memory) = 2
  /\ markArg = <<"m2", "m1">>
  /\ Range(markArg) = Range(beforeMark.memory)

\* at most one request per message, the k-th for the k-th message
RequestsBounded ==
  /\ Len(requests) <= Len(messages)
  /\ \A k \in 1..Len(requests) :
       requests[k].index = k /\ requests[k].messageId = messages[k]

\* the call waits for a response or for the progress callback
InLoop == ex_pc \in {"fetch", "progress"}

====
